---- MODULE Spec2Model ----
(***************************************************************************)
(* A model of torchgpipe/skip/skippable.py: the Skippable wrapper, its     *)
(* dispatch loop over a generator body that yields stash/pop commands, and *)
(* the per-call bookkeeping of forward().  The skip tracker                *)
(* (torchgpipe.skip.tracker) is seen through load/save only.               *)
(***************************************************************************)
EXTENDS Integers, Sequences, FiniteSets, TLC

\* ---------------------------------------------------------------- bounds
MaxTensor == 2      \* tensors are the opaque payloads 1..MaxTensor
MaxCmds == 3        \* most commands one generator body yields in one call
MaxPlain == 1       \* most plain stages counted between two skippable stages

\* ---------------------------------------------------------------- values
None == 0 - 1                       \* Python None (Optional[Tensor])
Missing == 0 - 2                    \* "key not in dict" for the dicts below
Tensors == 1..MaxTensor
Values == Tensors \cup {None}
Names == {"a", "b"}                 \* skip names (str)
Units == {"u1", "u2"}               \* micro-batches, one tracker each
Namespaces == {"ns1", "ns2"}        \* Namespace() tokens
NoNamespace == "None"               \* what namespaces.get(name) gives by default
NotIsolated == "missing"            \* "name not in self.namespaces"
AllNamespaces == Namespaces \cup {NoNamespace}
SkipKeys == AllNamespaces \X Names  \* the tracker's keys (ns, name)

\* The classes built by @skippable(stash=..., pop=...), and their instances.
Classes == {"Stash2", "Pop2", "Mixed", "Bare", "Layer1", "Layer3"}

stashable_names ==
  [c \in Classes |->
     CASE c = "Stash2" -> {"a", "b"}
       [] c = "Mixed"  -> {"a"}
       [] c = "Layer1" -> {"a"}
       [] OTHER        -> {}]

poppable_names ==
  [c \in Classes |->
     CASE c = "Pop2"   -> {"a", "b"}
       [] c = "Mixed"  -> {"b"}
       [] c = "Layer3" -> {"a"}
       [] OTHER        -> {}]

Instances == {"stash2", "pop2", "mixed", "bare", "st1", "st2", "po1", "po2"}

ClassOf ==
  [i \in Instances |->
     CASE i = "stash2" -> "Stash2"
       [] i = "pop2"   -> "Pop2"
       [] i = "mixed"  -> "Mixed"
       [] i = "bare"   -> "Bare"
       [] i \in {"st1", "st2"} -> "Layer1"
       [] OTHER        -> "Layer3"]

\* ---------------------------------------------------------------- errors
\* The exceptions forward() and dispatch() can raise, by the line raising.
NoError == "none"
TypeError == "TypeError"                       \* ProtocolViolation
NotStashable == "RuntimeError: not declared as stashable"   \* UndeclaredName
NotPoppable == "RuntimeError: not declared as poppable"     \* UndeclaredName
KeyError == "KeyError"                         \* MissingPop
IndexError == "IndexError"                     \* stop.args is empty
MustBeStashed == "RuntimeError: must be stashed but have not"  \* IncompleteStash
MustBePopped == "RuntimeError: must be popped but have not"    \* IncompletePop
BodyError == "raised by the module"            \* an exception of the body's own

\* ---------------------------------------------------------------- state
VARIABLES
  namespaces,   \* namespaces[i][name]: the instance's dict (NotIsolated: no key)
  tensors,      \* the tracker of each unit: tensors[u][<<ns, name>>]
  call,         \* call[u]: the forward() call the unit is in, or was last in
  shelf         \* shelf[u][<<ns, name>>]: the tensor a body last stashed on
                \* the unit from an instance isolated into ns, until a call
                \* of an instance isolated into ns with name poppable starts

vars == <<namespaces, tensors, call, shelf>>

EmptyDict == [n \in Names |-> Missing]
Keys(d) == {n \in DOMAIN d : d[n] # Missing}

IdleCall ==
  [pc |-> "idle", self |-> "bare", input |-> None,
   skips_stashed |-> EmptyDict, skips_to_pop |-> EmptyDict,
   tensor |-> None, resume |-> "next",
   output |-> None, dispatched |-> FALSE, error |-> NoError, comma_names |-> {},
   batch |-> "u1", loaded |-> {}, absent |-> {}, preloaded |-> EmptyDict,
   saved |-> <<>>,
   generator |-> FALSE, stop |-> Missing,
   yielded |-> <<>>, handled |-> <<>>, sent |-> <<>>,
   expected |-> EmptyDict,
   own |-> [n \in Names |-> NoNamespace], gap |-> 0, then |-> 0]

\* The fields of a call record:
\*   pc             "idle", "suspended" (the generator is at a yield, or not
\*                  yet started), "returned", "raised"
\*   self, input, batch   the instance, the input and the unit of the call
\*   skips_stashed, skips_to_pop   the two dicts of forward()
\*   resume, tensor "next" or "send", and the tensor handle_pop returned
\*   output, dispatched   what dispatch returned, and whether it did
\*   error, comma_names   the exception raised and the names in its message
\*   loaded, absent, preloaded   the tracker.load calls made, the names the
\*                  tracker had nothing for, and what the loads returned
\*   saved          the tracker.save calls made
\*   generator, stop, yielded, sent   the body's side: whether it is a
\*                  generator, what it returned, what it yielded and what it
\*                  was resumed with
\*   handled        the handler calls that returned, with their results
\*   expected, own  when the call started: what the shelf of the unit had for
\*                  the poppable names, and the namespaces of the instance
\*   gap, then      the plain stages the unit went through before the call
\*                  started, and since it ended

\* ------------------------------------------------- the body's side of a call
\* Where the body yielded a stash / a pop of a name, and the names it
\* stashed / popped.
Stashes(c, name) ==
  {k \in 1..Len(c.yielded) : c.yielded[k].op = "stash" /\ c.yielded[k].name = name}
Pops(c, name) ==
  {k \in 1..Len(c.yielded) : c.yielded[k].op = "pop" /\ c.yielded[k].name = name}
StashedNames(c) == {name \in Names : Stashes(c, name) # {}}
PoppedNames(c) == {name \in Names : Pops(c, name) # {}}
Min(S) == CHOOSE k \in S : \A j \in S : k <= j
Max(S) == CHOOSE k \in S : \A j \in S : k >= j
Declared(c) ==
  [stash |-> stashable_names[ClassOf[c.self]], pop |-> poppable_names[ClassOf[c.self]]]

\* The namespace the instance has been isolated into for a name, the shared
\* default when it has not.
Own(i, name) ==
  IF namespaces[i][name] \in Namespaces THEN namespaces[i][name] ELSE NoNamespace

\* The shelf of a unit once a call of instance i has started, and once the
\* call c has come to its end.
ShelfStarted(S, i) ==
  [k \in SkipKeys |->
     IF k[2] \in poppable_names[ClassOf[i]] /\ k[1] = Own(i, k[2])
     THEN Missing ELSE S[k]]
ShelfEnded(S, c) ==
  [k \in SkipKeys |->
     IF /\ c.pc = "returned"
        /\ k[2] \in StashedNames(c) \cap Declared(c).stash
        /\ k[1] = Own(c.self, k[2])
     THEN c.yielded[Max(Stashes(c, k[2]))].tensor ELSE S[k]]

\* ------------------------------------------------------ Skippable helpers
\* namespaced without the instance's namespaces.
namespaced_shared(i, name) == <<NoNamespace, name>>

\* Skippable.namespaced: the namespace of a name, None when never isolated.
namespaced(i, name) ==
  LET ns == IF namespaces[i][name] = NotIsolated THEN NoNamespace
            ELSE namespaces[i][name]
  IN <<ns, name>>

\* Skippable.stashable / Skippable.poppable: the namespaced declared names.
stashable(i) == {namespaced(i, name) : name \in stashable_names[ClassOf[i]]}
poppable(i) == {namespaced(i, name) : name \in poppable_names[ClassOf[i]]}

\* A set turned into the sequence a "for ... in frozenset" loop walks.
RECURSIVE Iterate(_)
Iterate(S) ==
  IF S = {} THEN <<>>
  ELSE LET x == CHOOSE y \in S : TRUE IN <<x>> \o Iterate(S \ {x})

\* ------------------------------------------------------------ the tracker
\* skip_tracker.load(batch, ns, name): the saved tensor, None when there is
\* none; the entry is consumed.
load(T, key) == IF T[key] = Missing THEN None ELSE T[key]
AfterLoads(T, keys) == [k \in SkipKeys |-> IF k \in keys THEN Missing ELSE T[k]]

\* skip_tracker.save(batch, ns, name, tensor), for a sequence of calls.
RECURSIVE AfterSaves(_, _)
AfterSaves(T, calls) ==
  IF calls = <<>> THEN T
  ELSE AfterSaves([T EXCEPT ![<<Head(calls).ns, Head(calls).name>>] = Head(calls).tensor],
                  Tail(calls))

\* ------------------------------------------------------ forward: prologue
\* "Load skip tensors that might be popped": the call record right after
\* the loop over self.poppable().
SkipsToPop(u, i) ==
  [name \in Names |->
     IF name \in poppable_names[ClassOf[i]]
     THEN load(tensors[u], namespaced(i, name)) ELSE Missing]

Preloaded(u, i, input) ==
  [IdleCall EXCEPT
     !.pc = "loaded", !.self = i, !.input = input, !.batch = u,
     !.expected = [n \in Names |->
                     IF n \in poppable_names[ClassOf[i]]
                     THEN load(shelf[u], <<Own(i, n), n>>) ELSE Missing],
     !.own = [n \in Names |-> Own(i, n)],
     !.gap = call[u].then,
     !.loaded = poppable(i),
     !.absent = {name \in poppable_names[ClassOf[i]] :
                   tensors[u][namespaced(i, name)] = Missing},
     !.preloaded = SkipsToPop(u, i),
     !.skips_to_pop = SkipsToPop(u, i)]

\* ------------------------------------------------------ forward: handlers
\* Raise after saving what the body has stashed so far.
Raise_saving(c, error, names) ==
  LET stashed == Iterate(Keys(c.skips_stashed))
  IN [c EXCEPT !.pc = "raised", !.error = error, !.comma_names = names,
               !.saved = [k \in 1..Len(stashed) |->
                            [ns |-> namespaced(c.self, stashed[k])[1], name |-> stashed[k],
                             tensor |-> c.skips_stashed[stashed[k]]]]]

\* An exception leaves forward(): nothing after the raise is run.
Raise(c, error, names) ==
  [c EXCEPT !.pc = "raised", !.error = error, !.comma_names = names]

\* handle_stash checking the name against both declared sets.
handle_stash_anyDeclared(c, name, tensor) ==
  IF name \notin stashable_names[ClassOf[c.self]] \cup poppable_names[ClassOf[c.self]]
  THEN Raise(c, NotStashable, {name})
  ELSE [c EXCEPT !.skips_stashed[name] = tensor,
                 !.handled = Append(@, [h |-> "stash", name |-> name, tensor |-> tensor]),
                 !.resume = "next", !.tensor = None]

\* handle_stash keeping the first tensor stashed under a name.
handle_stash_firstWins(c, name, tensor) ==
  IF name \notin stashable_names[ClassOf[c.self]]
  THEN Raise(c, NotStashable, {name})
  ELSE [c EXCEPT !.skips_stashed[name] = IF @ = Missing THEN tensor ELSE @,
                 !.handled = Append(@, [h |-> "stash", name |-> name, tensor |-> tensor]),
                 !.resume = "next", !.tensor = None]

\* handle_stash recording nothing when the tensor is None.
handle_stash_dropNone(c, name, tensor) ==
  IF name \notin stashable_names[ClassOf[c.self]]
  THEN Raise(c, NotStashable, {name})
  ELSE [c EXCEPT !.skips_stashed[name] = IF tensor = None THEN @ ELSE tensor,
                 !.handled = Append(@, [h |-> "stash", name |-> name, tensor |-> tensor]),
                 !.resume = "next", !.tensor = None]

\* handle_stash(name, tensor)
handle_stash(c, name, tensor) ==
  IF name \notin stashable_names[ClassOf[c.self]]
  THEN Raise(c, NotStashable, {name})
  ELSE [c EXCEPT !.skips_stashed[name] = tensor,
                 !.handled = Append(@, [h |-> "stash", name |-> name, tensor |-> tensor]),
                 !.resume = "next", !.tensor = None]

\* handle_pop reading skips_to_pop[name] without removing it.
handle_pop_keep(c, name) ==
  IF name \notin poppable_names[ClassOf[c.self]]
  THEN Raise(c, NotPoppable, {name})
  ELSE IF c.skips_to_pop[name] = Missing
  THEN Raise(c, KeyError, {name})
  ELSE [c EXCEPT !.handled = Append(@, [h |-> "pop", name |-> name,
                                        tensor |-> c.skips_to_pop[name]]),
                 !.resume = "send", !.tensor = c.skips_to_pop[name]]

\* handle_pop(name): skips_to_pop.pop(name) raises KeyError on a missing key.
handle_pop(c, name) ==
  IF name \notin poppable_names[ClassOf[c.self]]
  THEN Raise(c, NotPoppable, {name})
  ELSE IF c.skips_to_pop[name] = Missing
  THEN Raise(c, KeyError, {name})
  ELSE [c EXCEPT !.skips_to_pop[name] = Missing,
                 !.handled = Append(@, [h |-> "pop", name |-> name,
                                        tensor |-> c.skips_to_pop[name]]),
                 !.resume = "send", !.tensor = c.skips_to_pop[name]]

\* ------------------------------------------------------ forward: epilogue
\* The tracker.save calls of the loop over self.stashable().
SaveCalls(c) ==
  LET names == Iterate(stashable_names[ClassOf[c.self]])
  IN [k \in 1..Len(names) |->
        [ns |-> namespaced(c.self, names[k])[1], name |-> names[k],
         tensor |-> c.skips_stashed[names[k]]]]

\* The tracker of the unit after the call record c has been reached, had
\* forward() returned without its save loop.
Tracked_noSave(T, c) == T

\* The tracker of the unit after the call record c has been reached.
Tracked(T, c) == AfterSaves(T, c.saved)

\* Completed with messages that name the first offending name only.
Completed_firstName(c, output) ==
  LET not_stashed == stashable_names[ClassOf[c.self]] \ Keys(c.skips_stashed)
      not_popped == Keys(c.skips_to_pop)
      d == [c EXCEPT !.output = output, !.dispatched = TRUE]
  IN IF not_stashed # {} THEN Raise(d, MustBeStashed, {CHOOSE n \in not_stashed : TRUE})
     ELSE IF not_popped # {} THEN Raise(d, MustBePopped, {CHOOSE n \in not_popped : TRUE})
     ELSE [d EXCEPT !.pc = "returned", !.saved = SaveCalls(c)]

\* Completed with a pop check that takes a None tensor for "no tensor".
Completed_truthy(c, output) ==
  LET not_stashed == stashable_names[ClassOf[c.self]] \ Keys(c.skips_stashed)
      not_popped == {n \in Keys(c.skips_to_pop) : c.skips_to_pop[n] # None}
      d == [c EXCEPT !.output = output, !.dispatched = TRUE]
  IN IF not_stashed # {} THEN Raise(d, MustBeStashed, not_stashed)
     ELSE IF not_popped # {} THEN Raise(d, MustBePopped, not_popped)
     ELSE [d EXCEPT !.pc = "returned", !.saved = SaveCalls(c)]

\* Completed with the stash check looking at the declared names as a whole.
Completed_allNames(c, output) ==
  LET not_stashed == stashable_names[ClassOf[c.self]] \ Keys(c.skips_stashed)
      not_popped == Keys(c.skips_to_pop)
      d == [c EXCEPT !.output = output, !.dispatched = TRUE]
  IN IF not_stashed # {} THEN Raise(d, MustBeStashed, stashable_names[ClassOf[c.self]])
     ELSE IF not_popped # {} THEN Raise(d, MustBePopped, not_popped)
     ELSE [d EXCEPT !.pc = "returned", !.saved = SaveCalls(c)]

\* Completed with the pop check made before the stash check.
Completed_popFirst(c, output) ==
  LET not_stashed == stashable_names[ClassOf[c.self]] \ Keys(c.skips_stashed)
      not_popped == Keys(c.skips_to_pop)
      d == [c EXCEPT !.output = output, !.dispatched = TRUE]
  IN IF not_popped # {} THEN Raise(d, MustBePopped, not_popped)
     ELSE IF not_stashed # {} THEN Raise(d, MustBeStashed, not_stashed)
     ELSE [d EXCEPT !.pc = "returned", !.saved = SaveCalls(c)]

\* Completed with the save loop run between the two checks.
Completed_saveBeforePopCheck(c, output) ==
  LET not_stashed == stashable_names[ClassOf[c.self]] \ Keys(c.skips_stashed)
      not_popped == Keys(c.skips_to_pop)
      d == [c EXCEPT !.output = output, !.dispatched = TRUE]
  IN IF not_stashed # {} THEN Raise(d, MustBeStashed, not_stashed)
     ELSE IF not_popped # {}
     THEN Raise([d EXCEPT !.saved = SaveCalls(c)], MustBePopped, not_popped)
     ELSE [d EXCEPT !.pc = "returned", !.saved = SaveCalls(c)]

\* "All declared skips must be stashed or popped", then "Save stashed skip
\* tensors": what forward() does once dispatch has returned output.
Completed(c, output) ==
  LET not_stashed == stashable_names[ClassOf[c.self]] \ Keys(c.skips_stashed)
      not_popped == Keys(c.skips_to_pop)
      d == [c EXCEPT !.output = output, !.dispatched = TRUE]
  IN IF not_stashed # {} THEN Raise(d, MustBeStashed, not_stashed)
     ELSE IF not_popped # {} THEN Raise(d, MustBePopped, not_popped)
     ELSE [d EXCEPT !.pc = "returned", !.saved = SaveCalls(c)]

\* ----------------------------------------------------------------- Init
Init ==
  /\ namespaces = [i \in Instances |-> [n \in Names |-> NotIsolated]]
  /\ tensors = [u \in Units |-> [k \in SkipKeys |-> Missing]]
  /\ call = [u \in Units |-> IdleCall]
  /\ shelf = [u \in Units |-> [k \in SkipKeys |-> Missing]]

\* --------------------------------------------------------------- actions
Busy(u) == call[u].pc = "suspended"

\* Forward returning the module's output before the checks.
Forward_unchecked(u, i, input, output) ==
  /\ ~Busy(u)
  /\ call' = [call EXCEPT ![u] = [Preloaded(u, i, input) EXCEPT
                                    !.pc = "returned", !.stop = output,
                                    !.output = output, !.dispatched = TRUE]]
  /\ tensors' = [tensors EXCEPT ![u] = AfterLoads(tensors[u], poppable(i))]
  /\ shelf' = [shelf EXCEPT ![u] = ShelfStarted(shelf[u], i)]
  /\ UNCHANGED namespaces

\* forward(input) of instance i on unit u, the module returning output
\* without any yield (dispatch, "not isinstance(generator, Generator)").
Forward(u, i, input, output) ==
  /\ ~Busy(u)
  /\ LET c == Completed([Preloaded(u, i, input) EXCEPT !.stop = output], output)
     IN /\ call' = [call EXCEPT ![u] = c]
        /\ tensors' = [tensors EXCEPT
                         ![u] = Tracked(AfterLoads(tensors[u], poppable(i)), c)]
        /\ shelf' = [shelf EXCEPT ![u] = ShelfEnded(ShelfStarted(shelf[u], i), c)]
  /\ UNCHANGED namespaces

\* forward(input) of instance i on unit u up to the generator's creation.
ForwardGen(u, i, input) ==
  /\ ~Busy(u)
  /\ call' = [call EXCEPT ![u] = [Preloaded(u, i, input) EXCEPT
                                    !.pc = "suspended", !.generator = TRUE]]
  /\ tensors' = [tensors EXCEPT ![u] = AfterLoads(tensors[u], poppable(i))]
  /\ shelf' = [shelf EXCEPT ![u] = ShelfStarted(shelf[u], i)]
  /\ UNCHANGED namespaces

\* Received with the body always resumed by next(generator).
Received_next(c) == None

\* next(generator) / generator.send(tensor): the body runs on from where it
\* was suspended, having received the value sent.
Received(c) == IF c.resume = "send" THEN c.tensor ELSE None
Resumed(c) == [c EXCEPT !.sent = Append(@, [how |-> c.resume, value |-> Received(c)])]

Yielded(c, op) == [c EXCEPT !.yielded = Append(@, op)]

\* YieldStash with skips_stashed kept on the instance, not in the call.
YieldStash_shared(u, name, tensor) ==
  /\ Busy(u)
  /\ Len(call[u].yielded) < MaxCmds
  /\ call' = [v \in Units |->
                IF v = u
                THEN handle_stash(Yielded(Resumed(call[u]),
                                          [op |-> "stash", name |-> name, tensor |-> tensor]),
                                  name, tensor)
                ELSE IF Busy(v) /\ call[v].self = call[u].self
                                /\ name \in stashable_names[ClassOf[call[u].self]]
                THEN [call[v] EXCEPT !.skips_stashed[name] = tensor]
                ELSE call[v]]
  /\ UNCHANGED <<namespaces, tensors, shelf>>

\* The body yields stash(name, tensor).
YieldStash(u, name, tensor) ==
  /\ Busy(u)
  /\ Len(call[u].yielded) < MaxCmds
  /\ call' = [call EXCEPT ![u] =
                handle_stash(Yielded(Resumed(call[u]),
                                     [op |-> "stash", name |-> name, tensor |-> tensor]),
                             name, tensor)]
  /\ UNCHANGED <<namespaces, tensors, shelf>>

\* The body yields pop(name).
YieldPop(u, name) ==
  /\ Busy(u)
  /\ Len(call[u].yielded) < MaxCmds
  /\ call' = [call EXCEPT ![u] =
                handle_pop(Yielded(Resumed(call[u]),
                                   [op |-> "pop", name |-> name, tensor |-> None]),
                           name)]
  /\ UNCHANGED <<namespaces, tensors, shelf>>

\* YieldOther with a dispatch loop that skips what it does not know.
YieldOther_skipped(u) ==
  /\ Busy(u)
  /\ Len(call[u].yielded) < MaxCmds
  /\ call' = [call EXCEPT ![u] =
                [Yielded(Resumed(call[u]),
                         [op |-> "other", name |-> "", tensor |-> None])
                   EXCEPT !.resume = "next", !.tensor = None]]
  /\ UNCHANGED <<namespaces, tensors, shelf>>

\* The body yields something that is neither stash nor pop.
YieldOther(u) ==
  /\ Busy(u)
  /\ Len(call[u].yielded) < MaxCmds
  /\ call' = [call EXCEPT ![u] =
                Raise(Yielded(Resumed(call[u]),
                              [op |-> "other", name |-> "", tensor |-> None]),
                      TypeError, {})]
  /\ UNCHANGED <<namespaces, tensors, shelf>>

\* The body returns output: StopIteration(output), stop.args[0] is output.
Return(u, output) ==
  /\ Busy(u)
  /\ LET c == Completed([Resumed(call[u]) EXCEPT !.stop = output], output)
     IN /\ call' = [call EXCEPT ![u] = c]
        /\ tensors' = [tensors EXCEPT ![u] = Tracked(tensors[u], c)]
        /\ shelf' = [shelf EXCEPT ![u] = ShelfEnded(shelf[u], c)]
  /\ UNCHANGED namespaces

\* The body returns without a value: StopIteration(), stop.args is empty and
\* stop.args[0] raises IndexError.
ReturnNothing(u) ==
  /\ Busy(u)
  /\ call' = [call EXCEPT ![u] =
                Raise([Resumed(call[u]) EXCEPT !.stop = None], IndexError, {})]
  /\ UNCHANGED <<namespaces, tensors, shelf>>

\* The keyword argument of isolate: omitted (None), or an iterable of names.
Omitted == [given |-> FALSE, names |-> {}]
Only(names) == [given |-> TRUE, names |-> names]

\* isolate with the namespaces dict kept on the class, not on the instance.
isolate_classWide(i, ns, only) ==
  LET names == IF ~only.given
               THEN stashable_names[ClassOf[i]] \cup poppable_names[ClassOf[i]]
               ELSE only.names
  IN /\ namespaces' = [j \in Instances |->
                         IF ClassOf[j] = ClassOf[i]
                         THEN [n \in Names |-> IF n \in names THEN ns ELSE namespaces[j][n]]
                         ELSE namespaces[j]]
     /\ UNCHANGED <<tensors, call, shelf>>

\* isolate keeping the namespace a name already has.
isolate_once(i, ns, only) ==
  LET names == IF ~only.given
               THEN stashable_names[ClassOf[i]] \cup poppable_names[ClassOf[i]]
               ELSE only.names
  IN /\ namespaces' = [namespaces EXCEPT
                         ![i] = [n \in Names |->
                                   IF n \in names /\ @[n] = NotIsolated THEN ns ELSE @[n]]]
     /\ UNCHANGED <<tensors, call, shelf>>

\* isolate(ns) and isolate(ns, only=names)
isolate(i, ns, only) ==
  LET names == IF ~only.given
               THEN stashable_names[ClassOf[i]] \cup poppable_names[ClassOf[i]]
               ELSE only.names
  IN /\ namespaces' = [namespaces EXCEPT
                         ![i] = [n \in Names |-> IF n \in names THEN ns ELSE @[n]]]
     /\ UNCHANGED <<tensors, call, shelf>>

\* The modules of the docstring's example, Layer1 wrapped into the instances
\* st1 and st2, Layer3 into po1 and po2, the skip named "a" here:
\*   Layer1:  yield stash('1to3', input); return f1(input)
\*   Layer2:  return f2(input)                  (a plain nn.Module)
\*   Layer3:  skip_1to3 = yield pop('1to3'); return f3(input) + skip_1to3
f1(input) == 2 * input
f3(input) == 3 * input

Layer1Stash(u) ==
  /\ ClassOf[call[u].self] = "Layer1"
  /\ call[u].yielded = <<>>
  /\ YieldStash(u, "a", call[u].input)

Layer1Return(u) ==
  /\ ClassOf[call[u].self] = "Layer1"
  /\ Len(call[u].yielded) = 1
  /\ Return(u, f1(call[u].input))

Layer3Pop(u) ==
  /\ ClassOf[call[u].self] = "Layer3"
  /\ call[u].yielded = <<>>
  /\ YieldPop(u, "a")

\* f3(input) + None raises in the body, and so out of dispatch and forward.
Layer3Return(u) ==
  /\ ClassOf[call[u].self] = "Layer3"
  /\ Len(call[u].yielded) = 1
  /\ IF Received(call[u]) = None
     THEN /\ Busy(u)
          /\ call' = [call EXCEPT ![u] = Raise(Resumed(call[u]), BodyError, {})]
          /\ UNCHANGED <<namespaces, tensors, shelf>>
     ELSE Return(u, f3(call[u].input) + Received(call[u]))

\* Layer2, a stage that is not skippable, runs on the unit between two calls.
Layer2(u) ==
  /\ ~Busy(u)
  /\ call[u].then < MaxPlain
  /\ call' = [call EXCEPT ![u].then = @ + 1]
  /\ UNCHANGED <<namespaces, tensors, shelf>>

\* ---------------------------------------------------- the specifications
\* One unit, the instances never isolated, any body.  The input is one
\* tensor: these bodies stash and return what they like, whatever it is.
Core == {"stash2", "pop2", "mixed", "bare"}
CoreInputs == {MaxTensor}

Next ==
  \/ \E i \in Core, x \in CoreInputs, y \in Values : Forward("u1", i, x, y)
  \/ \E i \in Core, x \in CoreInputs : ForwardGen("u1", i, x)
  \/ \E n \in Names, t \in Values : YieldStash("u1", n, t)
  \/ \E n \in Names : YieldPop("u1", n)
  \/ YieldOther("u1")
  \/ \E y \in Tensors : Return("u1", y)
  \/ ReturnNothing("u1")

Spec == Init /\ [][Next]_vars

\* The docstring's modules in any order on a unit, each instance isolated at
\* any time as in the Usage of isolate:
\*   Stash().isolate(ns1), Stash().isolate(ns2),
\*   Pop().isolate(ns2), Pop().isolate(ns1)
Sequential == {"st1", "st2", "po1", "po2"}
Usage == {<<"st1", "ns1">>, <<"st2", "ns2">>, <<"po2", "ns2">>, <<"po1", "ns1">>}

NextSequential ==
  \/ \E i \in Sequential, x \in Tensors : ForwardGen("u1", i, x)
  \/ Layer1Stash("u1")
  \/ Layer1Return("u1")
  \/ Layer2("u1")
  \/ Layer3Pop("u1")
  \/ Layer3Return("u1")
  \/ \E e \in Usage : isolate(e[1], e[2], Omitted)

SpecSequential == Init /\ [][NextSequential]_vars

\* Calls of one instance, declaring stash a and pop b, on two units at once:
\* each call moves on by one resumption of its body at a time, in any order.
NextInterleaved ==
  \/ \E u \in Units, x \in CoreInputs : ForwardGen(u, "mixed", x)
  \/ \E u \in Units, t \in Tensors : YieldStash(u, "a", t)
  \/ \E u \in Units : YieldPop(u, "b")
  \/ \E u \in Units, y \in CoreInputs : Return(u, y)

SpecInterleaved == Init /\ [][NextInterleaved]_vars

\* Two instances of Layer1 and the instance declaring stash a and pop b,
\* isolated any number of times, with and without only, only being any
\* names at all.
Isolated == {"st1", "st2", "mixed"}

NextIsolate ==
  \/ \E i \in Isolated, ns \in Namespaces : isolate(i, ns, Omitted)
  \/ \E i \in Isolated, ns \in Namespaces, S \in SUBSET Names : isolate(i, ns, Only(S))

SpecIsolate == Init /\ [][NextIsolate]_vars

\* A Layer1 and a Layer3 instance called in any order on a unit, each
\* isolated into any namespace at any time: before its first call, between
\* two calls, while a call is suspended, and again after that.
Rebound == {"st1", "po1"}

NextRebind ==
  \/ \E i \in Rebound, x \in Tensors : ForwardGen("u1", i, x)
  \/ Layer1Stash("u1")
  \/ Layer1Return("u1")
  \/ Layer3Pop("u1")
  \/ Layer3Return("u1")
  \/ \E i \in Rebound, ns \in Namespaces : isolate(i, ns, Omitted)

SpecRebind == Init /\ [][NextRebind]_vars

\* The command the body yielded at k names something the class did not
\* declare for that kind of command.
Undeclared(c, k) ==
  \/ c.yielded[k].op = "stash" /\ c.yielded[k].name \notin Declared(c).stash
  \/ c.yielded[k].op = "pop" /\ c.yielded[k].name \notin Declared(c).pop

\* The body was not resumed after the command it yielded at k: that command
\* is its last, the call has raised, and the handlers that returned are
\* those of the commands before it.
AbortedAt(c, k) ==
  /\ k = Len(c.yielded)
  /\ c.pc = "raised"
  /\ Len(c.sent) = k
  /\ Len(c.handled) = k - 1

\* ------------------------------------------------------------------ C1
\* C1: once the body's commands have all been handled and dispatch has
\* returned, forward() succeeds if the body stashed every declared stashable
\* name and popped every pre-loaded name; if the body left a declared
\* stashable name unstashed, forward() raises "must be stashed but have not"
\* and the message names exactly the declared names the body did not stash.
C1_IncompleteStashNamesOmitted ==
  \A u \in Units :
    LET c == call[u]
        omitted == Declared(c).stash \ StashedNames(c)
    IN c.dispatched =>
         /\ (omitted = {} /\ Keys(c.preloaded) \subseteq PoppedNames(c))
              => (c.pc = "returned" /\ c.error = NoError)
         /\ omitted # {}
              => (c.pc = "raised" /\ c.error = MustBeStashed
                  /\ c.comma_names = omitted)

\* A body of the class declaring stash a and b stashed a only.
C1_Witness ==
  \E u \in Units :
    /\ call[u].self = "stash2" /\ call[u].dispatched
    /\ StashedNames(call[u]) = {"a"}
    /\ call[u].error = MustBeStashed /\ call[u].comma_names = {"b"}

\* ------------------------------------------------------------------ C2
\* C2: when dispatch has returned and the body stashed every declared
\* stashable name, a pre-loaded name the body never popped makes forward()
\* raise "must be popped but have not", the message naming every pre-loaded
\* name that was not popped and no other.
C2_IncompletePopNamesAll ==
  \A u \in Units :
    LET c == call[u]
        unpopped == Keys(c.preloaded) \ PoppedNames(c)
    IN (c.dispatched /\ Declared(c).stash \subseteq StashedNames(c) /\ unpopped # {})
         => (c.pc = "raised" /\ c.error = MustBePopped /\ c.comma_names = unpopped)

\* A generator body of the class declaring pop a and b popped neither.
C2_Witness ==
  \E u \in Units :
    /\ call[u].self = "pop2" /\ call[u].generator /\ call[u].dispatched
    /\ PoppedNames(call[u]) = {}
    /\ call[u].error = MustBePopped /\ call[u].comma_names = {"a", "b"}

\* ------------------------------------------------------------------ C3
\* C3: the first pop of a declared poppable name returns the pre-loaded
\* value to the body and removes the name from skips_to_pop; a later pop of
\* the same name raises KeyError there and then, and the body is not resumed.
C3_PopAtMostOnce ==
  \A u \in Units : \A name \in Declared(call[u]).pop :
    LET c == call[u]
        pops == Pops(c, name)
    IN pops # {} =>
         LET first == Min(pops)
         IN /\ first <= Len(c.handled)
            /\ c.handled[first] = [h |-> "pop", name |-> name,
                                   tensor |-> c.preloaded[name]]
            /\ c.skips_to_pop[name] = Missing
            /\ Len(c.sent) > first
                 => c.sent[first + 1] = [how |-> "send", value |-> c.preloaded[name]]
            /\ \A k \in pops \ {first} : AbortedAt(c, k) /\ c.error = KeyError

\* A body popped a name, got its tensor, and popped the name again.
C3_Witness ==
  \E u \in Units : \E name \in Names :
    /\ call[u].error = KeyError
    /\ Cardinality(Pops(call[u], name)) = 2
    /\ call[u].preloaded[name] \in Tensors
    /\ call[u].handled[Min(Pops(call[u], name))].tensor = call[u].preloaded[name]

\* ------------------------------------------------------------------ C4
\* C4: a stash of a name that is not stashable, or a pop of a name that is
\* not poppable, raises the "has not been declared" RuntimeError at once:
\* the command is the body's last, nothing is recorded in skips_stashed,
\* nothing is removed from skips_to_pop, and the body is not resumed.
C4_UndeclaredIn(c) ==
  \A k \in 1..Len(c.yielded) :
    Undeclared(c, k) =>
      /\ AbortedAt(c, k)
      /\ c.error = IF c.yielded[k].op = "stash" THEN NotStashable ELSE NotPoppable
      /\ c.comma_names = {c.yielded[k].name}

C4_UndeclaredStep ==
  \A u \in Units :
    LET c == call[u]
        d == call'[u]
    IN (c.pc = "suspended" /\ Len(d.yielded) = Len(c.yielded) + 1
        /\ Undeclared(d, Len(d.yielded)))
         => /\ d.skips_stashed = c.skips_stashed
            /\ d.skips_to_pop = c.skips_to_pop
            /\ d.handled = c.handled
            /\ d.pc = "raised"

C4_UndeclaredNameRaises ==
  /\ [](\A u \in Units : C4_UndeclaredIn(call[u]))
  /\ [][C4_UndeclaredStep]_vars

\* The class declaring stash a and pop b stashed b, after a valid stash.
C4_Witness ==
  \E u \in Units :
    /\ call[u].self = "mixed"
    /\ Len(call[u].yielded) = 2
    /\ call[u].yielded[2] = [op |-> "stash", name |-> "b", tensor |-> 1]
    /\ call[u].error = NotStashable
    /\ Keys(call[u].skips_stashed) = {"a"}
    /\ Keys(call[u].skips_to_pop) = {"b"}

\* ------------------------------------------------------------------ C7
\* C7: a poppable name the tracker has nothing for is pre-loaded as None;
\* the body's pop of it is sent None; the call returns without error when
\* the body stashed and popped all it had to; and left unpopped, the None
\* entry still makes forward() raise "must be popped but have not".
C7_NonePreloadIsAValue ==
  \A u \in Units : \A name \in call[u].absent :
    LET c == call[u]
        pops == Pops(c, name)
    IN /\ c.preloaded[name] = None
       /\ (pops # {} /\ Len(c.sent) > Min(pops))
            => c.sent[Min(pops) + 1] = [how |-> "send", value |-> None]
       /\ (c.dispatched /\ Declared(c).stash \subseteq StashedNames(c)
           /\ Keys(c.preloaded) \subseteq PoppedNames(c))
            => (c.pc = "returned" /\ c.error = NoError)
       /\ (c.dispatched /\ Declared(c).stash \subseteq StashedNames(c) /\ pops = {})
            => (c.pc = "raised" /\ c.error = MustBePopped /\ name \in c.comma_names)

\* A call popped a name the tracker had nothing for, and returned.
C7_Witness ==
  \E u \in Units : \E name \in call[u].absent :
    /\ call[u].pc = "returned"
    /\ Cardinality(Pops(call[u], name)) = 1
    /\ call[u].sent[Min(Pops(call[u], name)) + 1].value = None

\* ------------------------------------------------------------------ C8
\* C8: a call that returns has made exactly one tracker.save call for each
\* declared stashable name and none for any other name, with the tensor of
\* the body's last stash of that name, and the tracker holds that tensor.
C8_SaveOnceLastWins ==
  \A u \in Units : \A name \in Names :
    LET c == call[u]
        calls == {k \in 1..Len(c.saved) : c.saved[k].name = name}
    IN c.pc = "returned" =>
         IF name \in Declared(c).stash
         THEN /\ Cardinality(calls) = 1
              /\ \A k \in calls :
                   /\ c.saved[k].tensor = c.yielded[Max(Stashes(c, name))].tensor
                   /\ tensors[u][<<c.saved[k].ns, name>>] = c.saved[k].tensor
         ELSE calls = {}

\* A body stashed two tensors under one name, and the call returned.
C8_Witness ==
  \E u \in Units : \E name \in Names :
    LET c == call[u]
    IN /\ c.pc = "returned"
       /\ Cardinality(Stashes(c, name)) = 2
       /\ c.yielded[Min(Stashes(c, name))].tensor # c.yielded[Max(Stashes(c, name))].tensor

\* ------------------------------------------------------------------ C9
\* C9: when the module returns without any yield no handler is called and
\* dispatch returns the module's value as it is; forward() then returns only
\* if the class declares no name, raises "must be stashed" if it declares a
\* stashable name, and "must be popped" if it declares poppable names only.
C9_PlainBody ==
  \A u \in Units :
    LET c == call[u]
    IN (c.pc # "idle" /\ ~c.generator) =>
         /\ c.handled = <<>>
         /\ c.skips_stashed = EmptyDict
         /\ c.skips_to_pop = c.preloaded
         /\ c.dispatched /\ c.output = c.stop
         /\ (Declared(c).stash = {} /\ Declared(c).pop = {})
              => (c.pc = "returned" /\ c.error = NoError)
         /\ Declared(c).stash # {}
              => (c.pc = "raised" /\ c.error = MustBeStashed
                  /\ c.comma_names = Declared(c).stash)
         /\ (Declared(c).stash = {} /\ Declared(c).pop # {})
              => (c.pc = "raised" /\ c.error = MustBePopped
                  /\ c.comma_names = Declared(c).pop)

\* A module of the class declaring pop a and b returned without any yield.
C9_Witness ==
  \E u \in Units :
    /\ call[u].pc = "raised" /\ ~call[u].generator
    /\ call[u].self = "pop2"
    /\ call[u].output \in Tensors
    /\ call[u].error = MustBePopped

\* ------------------------------------------------------------------ C10
\* C10: a yielded object that is neither stash nor pop raises TypeError at
\* that yield: no handler is called for it, it is the body's last yield and
\* the body is not resumed, whatever was handled before.
C10_OtherObjectRaises ==
  \A u \in Units : \A k \in 1..Len(call[u].yielded) :
    call[u].yielded[k].op = "other"
      => (AbortedAt(call[u], k) /\ call[u].error = TypeError
          /\ ~call[u].dispatched)

\* A body yielded a stash, a pop, and then something else.
C10_Witness ==
  \E u \in Units :
    /\ Len(call[u].yielded) = 3 /\ Len(call[u].handled) = 2
    /\ call[u].yielded[3].op = "other"
    /\ call[u].error = TypeError

\* ------------------------------------------------------------------ C5
\* C5: when a Layer1 instance has stashed x on the unit and a Layer3
\* instance of the same namespace (the default one included) is called on
\* the unit next, plain stages or stages of other namespaces in between,
\* the Layer3 body is sent x at its pop and the call returns f3(input) + x.
C5_RoundTrip ==
  \A u \in Units :
    LET c == call[u]
        x == c.expected["a"]
    IN (c.pc # "idle" /\ ClassOf[c.self] = "Layer3" /\ x \in Tensors) =>
         /\ c.pc # "raised"
         /\ Len(c.sent) >= 2 => c.sent[2] = [how |-> "send", value |-> x]
         /\ c.pc = "returned" => c.output = f3(c.input) + x

\* Neither instance isolated, a plain stage in between, Layer3 returned.
C5_Witness ==
  \E u \in Units :
    LET c == call[u]
    IN /\ c.pc = "returned" /\ ClassOf[c.self] = "Layer3"
       /\ c.own["a"] = NoNamespace /\ c.gap >= 1
       /\ c.expected["a"] \in Tensors
       /\ c.output = f3(c.input) + c.expected["a"]

\* ------------------------------------------------------------------ C6
\* C6: every tracker.load of a call is keyed by the namespace the instance
\* is isolated into, so a pop is sent the tensor last stashed under its own
\* namespace (None when there is none), whatever other namespaces hold; and
\* every tracker.save of a returning call is keyed by the instance's
\* namespace and leaves the other namespaces' entries alone.
C6_LoadsOwnNamespace ==
  \A u \in Units :
    LET c == call[u]
    IN /\ c.loaded = {<<c.own[n], n>> : n \in Declared(c).pop}
       /\ \A n \in Declared(c).pop :
            /\ c.preloaded[n] = c.expected[n]
            /\ (Pops(c, n) # {} /\ Len(c.sent) > Min(Pops(c, n)))
                 => c.sent[Min(Pops(c, n)) + 1].value = c.expected[n]

C6_SavesOwnNamespace ==
  \A u \in Units :
    LET c == call'[u]
    IN (call[u].pc = "suspended" /\ c.pc = "returned") =>
         /\ \A k \in 1..Len(c.saved) : c.saved[k].ns = Own(c.self, c.saved[k].name)
         /\ \A key \in SkipKeys :
              tensors'[u][key] =
                IF key[2] \in Declared(c).stash /\ key[1] = Own(c.self, key[2])
                THEN c.yielded[Max(Stashes(c, key[2]))].tensor
                ELSE tensors[u][key]

C6_NamespaceIsolation ==
  /\ []C6_LoadsOwnNamespace
  /\ [][C6_SavesOwnNamespace]_vars

\* Stash(ns1), Stash(ns2), Pop(ns2): the pop got the tensor of ns2 while
\* ns1 holds another.
C6_Witness ==
  \E u \in Units :
    LET c == call[u]
    IN /\ c.pc = "returned" /\ c.self = "po2" /\ c.own["a"] = "ns2"
       /\ c.sent[2].value \in Tensors
       /\ shelf[u][<<"ns1", "a">>] \in Tensors
       /\ shelf[u][<<"ns1", "a">>] # c.sent[2].value

\* ------------------------------------------------------------------ C11
\* What a call comes to when its body runs alone, from what the body
\* yielded: the yields that are handled, and the two dicts after them.
Refused(c, k) ==
  \/ Undeclared(c, k)
  \/ c.yielded[k].op = "other"
  \/ c.yielded[k].op = "pop" /\ \E j \in 1..(k - 1) : j \in Pops(c, c.yielded[k].name)
Accepted(c) == {k \in 1..Len(c.yielded) : ~Refused(c, k)}
AloneStashed(c) ==
  [n \in Names |->
     IF Accepted(c) \cap Stashes(c, n) = {} THEN Missing
     ELSE c.yielded[Max(Accepted(c) \cap Stashes(c, n))].tensor]
AloneToPop(c) ==
  [n \in Names |-> IF Accepted(c) \cap Pops(c, n) = {} THEN c.preloaded[n] ELSE Missing]

\* C11: with calls of one instance interleaved on two units, each call has
\* its own skips_stashed and skips_to_pop, made of its own body's commands
\* and its own unit's pre-loads only, and it ends as it would alone: raising
\* for its own missing stash or pop, else saving its own stashed tensors.
C11_CallsDoNotShare ==
  \A u \in Units :
    LET c == call[u]
        omitted == Declared(c).stash \ StashedNames(c)
        unpopped == Keys(c.preloaded) \ PoppedNames(c)
    IN c.pc # "idle" =>
         /\ c.batch = u
         /\ c.skips_stashed = AloneStashed(c)
         /\ c.skips_to_pop = AloneToPop(c)
         /\ \A n \in Declared(c).pop : c.preloaded[n] = c.expected[n]
         /\ \A k \in 1..Len(c.yielded) : Refused(c, k) => AbortedAt(c, k)
         /\ c.dispatched =>
              /\ omitted # {} => (c.error = MustBeStashed /\ c.comma_names = omitted)
              /\ (omitted = {} /\ unpopped # {})
                   => (c.error = MustBePopped /\ c.comma_names = unpopped)
              /\ (omitted = {} /\ unpopped = {})
                   => /\ c.pc = "returned"
                      /\ \A k \in 1..Len(c.saved) :
                           c.saved[k].tensor = AloneStashed(c)[c.saved[k].name]

\* Two calls of the instance are suspended at once: one body has stashed a,
\* the other has popped b and not stashed yet.
C11_Witness ==
  /\ call["u1"].pc = "suspended" /\ call["u2"].pc = "suspended"
  /\ call["u1"].self = call["u2"].self
  /\ StashedNames(call["u1"]) = {"a"} /\ PoppedNames(call["u1"]) = {}
  /\ StashedNames(call["u2"]) = {} /\ PoppedNames(call["u2"]) = {"b"}

\* ------------------------------------------------------------------ C12
\* C12: the handlers are called once per yielded command and in the order
\* of the yields, the body being resumed once after each; after a stash the
\* body is resumed by next() and receives nothing, after a pop it is sent
\* the tensor handle_pop returned for that name.
C12_StrictAlternation ==
  \A u \in Units :
    LET c == call[u]
    IN c.generator =>
         /\ Len(c.handled) \in {Len(c.yielded), Len(c.yielded) - 1}
         /\ Len(c.handled) < Len(c.yielded) => c.pc = "raised"
         /\ Len(c.sent) \in {Len(c.yielded), Len(c.yielded) + 1}
         /\ c.pc = "suspended" => Len(c.sent) = Len(c.yielded)
         /\ Len(c.sent) > Len(c.yielded) => c.stop # Missing
         /\ \A k \in 1..Len(c.handled) :
              /\ c.handled[k].h = c.yielded[k].op
              /\ c.handled[k].name = c.yielded[k].name
              /\ c.yielded[k].op = "stash" => c.handled[k].tensor = c.yielded[k].tensor
              /\ c.yielded[k].op = "pop" => c.handled[k].tensor = c.preloaded[c.yielded[k].name]
         /\ \A k \in 1..Len(c.sent) :
              c.sent[k] = IF k > 1 /\ c.yielded[k - 1].op = "pop"
                          THEN [how |-> "send", value |-> c.handled[k - 1].tensor]
                          ELSE [how |-> "next", value |-> None]

\* A body stashed, popped a tensor, was sent it, and went on to a stash.
C12_Witness ==
  \E u \in Units :
    LET c == call[u]
    IN /\ Len(c.yielded) = 3 /\ Len(c.handled) = 3 /\ Len(c.sent) = 3
       /\ c.yielded[1].op = "stash" /\ c.yielded[2].op = "pop" /\ c.yielded[3].op = "stash"
       /\ c.sent[3].value \in Tensors

\* ------------------------------------------------------------------ C13
\* C13: when a generator body terminates, after any number of handled
\* commands or none, dispatch returns what the body returned as the output,
\* None when the body returned without a value, and raises nothing.
C13_ReturnValueIsOutput ==
  \A u \in Units :
    LET c == call[u]
    IN (c.generator /\ c.stop # Missing)
         => (c.dispatched /\ c.output = c.stop /\ c.error # IndexError)

\* ------------------------------------------------------------------ C14
\* C14: a call makes one tracker.load for each declared poppable name when
\* it starts, before the body runs and whether or not the body is a
\* generator or pops the name; while the body runs its commands no load and
\* no save is made; and tracker.save is called only once the body has
\* terminated and both the stash check and the pop check have passed.
C14_LoadedAndSaved ==
  \A u \in Units :
    LET c == call[u]
    IN c.pc # "idle" =>
         /\ c.loaded = {<<c.own[n], n>> : n \in Declared(c).pop}
         /\ Cardinality(c.loaded) = Cardinality(Declared(c).pop)
         /\ c.saved # <<>> =>
              /\ c.pc = "returned" /\ c.stop # Missing
              /\ Declared(c).stash \subseteq StashedNames(c)
              /\ Keys(c.preloaded) \subseteq PoppedNames(c)

C14_TrackerStep ==
  \A u \in Units :
    LET c == call[u]
        d == call'[u]
    IN /\ c.pc # "suspended" =>
            /\ tensors'[u] = AfterSaves(AfterLoads(tensors[u], d.loaded), d.saved)
            /\ d.generator => (d.yielded = <<>> /\ d.sent = <<>> /\ d.saved = <<>>)
       /\ c.pc = "suspended" =>
            /\ d.loaded = c.loaded /\ d.preloaded = c.preloaded
            /\ \A k \in SkipKeys : tensors'[u][k] = Missing => tensors[u][k] = Missing
            /\ d.stop = Missing => (d.saved = <<>> /\ tensors'[u] = tensors[u])
            /\ tensors'[u] = AfterSaves(tensors[u], d.saved)

C14_TrackerPhases ==
  /\ []C14_LoadedAndSaved
  /\ [][C14_TrackerStep]_vars

\* A generator body of the class declaring stash a and pop b ran three
\* commands and returned: one load was made, for b, and one save, for a.
C14_Witness ==
  \E u \in Units :
    LET c == call[u]
    IN /\ c.self = "mixed" /\ c.generator /\ c.pc = "returned"
       /\ Len(c.handled) = 3
       /\ c.loaded = {<<NoNamespace, "b">>}
       /\ Len(c.saved) = 1 /\ c.saved[1].name = "a"

\* ------------------------------------------------------------------ C15
\* C15: whatever isolate calls were made on an instance, with or without
\* only and whatever names only held, every name that has an entry in the
\* instance's namespaces is a declared stashable or poppable name.
C15_NamespacesDeclared ==
  \A i \in Instances : \A n \in Names :
    namespaces[i][n] # NotIsolated
      => n \in stashable_names[ClassOf[i]] \cup poppable_names[ClassOf[i]]

\* ------------------------------------------------------------------ C16
\* C16: isolate(ns) gives ns to every declared stashable and poppable name
\* of the instance; isolate(ns, only=S) gives ns to the names of S and
\* leaves the instance's other names as they were; either way the
\* namespaces of every other instance, of the same class or not, stay as
\* they were.
C16_IsolateStep ==
  \A i \in Instances : \A ns \in Namespaces :
    /\ isolate(i, ns, Omitted) =>
         /\ \A n \in stashable_names[ClassOf[i]] \cup poppable_names[ClassOf[i]] :
              namespaces'[i][n] = ns
         /\ \A n \in Names \ (stashable_names[ClassOf[i]] \cup poppable_names[ClassOf[i]]) :
              namespaces'[i][n] = namespaces[i][n]
         /\ \A j \in Instances \ {i} : namespaces'[j] = namespaces[j]
    /\ \A S \in SUBSET Names :
         isolate(i, ns, Only(S)) =>
           /\ \A n \in S : namespaces'[i][n] = ns
           /\ \A n \in Names \ S : namespaces'[i][n] = namespaces[i][n]
           /\ \A j \in Instances \ {i} : namespaces'[j] = namespaces[j]

C16_IsolateFrame == [][C16_IsolateStep]_vars

\* The two instances of Layer1 are in different namespaces, and the mixed
\* instance has had one of its two names moved by an isolate with only.
C16_Witness ==
  /\ namespaces["st1"]["a"] = "ns1"
  /\ namespaces["st2"]["a"] = "ns2"
  /\ namespaces["mixed"]["a"] = "ns2" /\ namespaces["mixed"]["b"] = "ns1"

\* ------------------------------------------------------------------ C17
\* C17: isolate can be called in every state, before, between, during and
\* after the calls of the instance, and does not fail; it replaces the
\* namespace the names had; a call that starts afterwards makes its loads,
\* and a call that returns afterwards its saves, under the namespace
\* assigned last, never under one that was replaced.
C17_IsolateNeverFails ==
  \A i \in Rebound : \A ns \in Namespaces :
    ENABLED (/\ isolate(i, ns, Omitted)
             /\ \A n \in stashable_names[ClassOf[i]] \cup poppable_names[ClassOf[i]] :
                  namespaces'[i][n] = ns)

C17_RebindStep ==
  /\ \A i \in Rebound : \A ns \in Namespaces :
       isolate(i, ns, Omitted) => UNCHANGED <<tensors, call>>
  /\ \A u \in Units :
       LET c == call[u]
           d == call'[u]
           latest == [n \in Names |-> <<Own(d.self, n), n>>]
       IN /\ (c.pc # "suspended" /\ d.pc = "suspended") =>
               /\ d.loaded = {latest[n] : n \in Declared(d).pop}
               /\ \A n \in Declared(d).pop :
                    d.preloaded[n] = load(tensors[u], latest[n])
               /\ tensors'[u] = AfterLoads(tensors[u], {latest[n] : n \in Declared(d).pop})
          /\ (c.pc = "suspended" /\ d.pc = "returned") =>
               /\ {<<d.saved[k].ns, d.saved[k].name>> : k \in 1..Len(d.saved)}
                    = {latest[n] : n \in Declared(d).stash}
               /\ \A key \in SkipKeys :
                    (tensors'[u][key] # tensors[u][key])
                      => (key[2] \in Declared(d).stash /\ key = latest[key[2]])

C17_IsolateOverwrites ==
  /\ []C17_IsolateNeverFails
  /\ [][C17_RebindStep]_vars

\* The Layer1 instance returned in ns1, was isolated again, into ns2, and
\* returned there; the Layer3 instance, isolated into ns2, was sent the
\* tensor of ns2 while ns1 still holds the earlier one.
C17_Witness ==
  LET c == call["u1"]
  IN /\ c.self = "po1" /\ c.pc = "returned" /\ c.own["a"] = "ns2"
     /\ c.sent[2].value \in Tensors
     /\ tensors["u1"][<<"ns1", "a">>] \in Tensors
     /\ tensors["u1"][<<"ns1", "a">>] # c.sent[2].value

\* ------------------------------------------------------------------ C18
\* C18: a declared stashable name whose last stash carried None has been
\* stashed: skips_stashed holds None under it, "must be stashed but have
\* not" never names it, the call returns when nothing else is missing, and
\* the returning call saves None under the name; whereas a declared name the
\* body never stashed is named by that error once dispatch has returned.
C18_StashOfNoneCounts ==
  \A u \in Units : \A n \in Declared(call[u]).stash :
    LET c == call[u]
        last == Max(Stashes(c, n))
    IN /\ (Stashes(c, n) # {} /\ last <= Len(c.handled) /\ c.yielded[last].tensor = None) =>
            /\ c.skips_stashed[n] = None
            /\ c.error = MustBeStashed => n \notin c.comma_names
            /\ (c.dispatched /\ Declared(c).stash \subseteq StashedNames(c)
                /\ Keys(c.preloaded) \subseteq PoppedNames(c)) => c.pc = "returned"
            /\ c.pc = "returned" =>
                 /\ \E k \in 1..Len(c.saved) :
                      c.saved[k].name = n /\ c.saved[k].tensor = None
                 /\ tensors[u][namespaced(c.self, n)] = None
       /\ (Stashes(c, n) = {} /\ c.dispatched) =>
            (c.error = MustBeStashed /\ n \in c.comma_names /\ c.saved = <<>>)

\* A body of the class declaring stash a and b stashed a tensor under a and
\* None under b, and the call returned.
C18_Witness ==
  \E u \in Units :
    LET c == call[u]
    IN /\ c.self = "stash2" /\ c.pc = "returned"
       /\ c.skips_stashed["a"] \in Tensors /\ c.skips_stashed["b"] = None
       /\ \E k \in 1..Len(c.saved) : c.saved[k].name = "b" /\ c.saved[k].tensor = None

\* ------------------------------------------------------------------ C19
\* C19: a call that raises, whatever the error, has made no tracker.save
\* call, not even for the names its body had stashed by then: from its start
\* to the raise the tracker of the unit changes by the loads of the start
\* only, every other entry staying as it was before the call.
C19_NoSaveWhenRaised ==
  \A u \in Units : call[u].pc = "raised" => call[u].saved = <<>>

C19_FailedStep ==
  \A u \in Units :
    LET c == call[u]
        d == call'[u]
    IN /\ (c.pc = "suspended" /\ d.pc \in {"suspended", "raised"})
            => tensors'[u] = tensors[u]
       /\ (c.pc # "suspended" /\ d.pc \in {"suspended", "raised"})
            => /\ tensors'[u] = AfterLoads(tensors[u], d.loaded)
               /\ \A k \in SkipKeys : tensors'[u][k] \in {tensors[u][k], Missing}

C19_FailureSavesNothing ==
  /\ []C19_NoSaveWhenRaised
  /\ [][C19_FailedStep]_vars

\* The tracker holds the tensor an earlier call saved under a; a later call
\* stashed another tensor under a and then raised.
C19_Witness ==
  \E u \in Units :
    LET c == call[u]
    IN /\ c.pc = "raised" /\ c.generator
       /\ c.skips_stashed["a"] \in Tensors
       /\ tensors[u][namespaced(c.self, "a")] \in Tensors
       /\ tensors[u][namespaced(c.self, "a")] # c.skips_stashed["a"]

\* ------------------------------------------------------------------ C20
\* C20: when dispatch has returned and the body left both a declared
\* stashable name unstashed and a pre-loaded name unpopped, forward() raises
\* "must be stashed but have not" and nothing else: the message names the
\* unstashed names, and none of the unpopped ones.
C20_StashCheckFirst ==
  \A u \in Units :
    LET c == call[u]
        omitted == Declared(c).stash \ StashedNames(c)
        unpopped == Keys(c.preloaded) \ PoppedNames(c)
    IN (c.dispatched /\ omitted # {} /\ unpopped # {}) =>
         /\ c.pc = "raised" /\ c.error = MustBeStashed
         /\ c.comma_names = omitted
         /\ c.comma_names \cap unpopped = {}
         /\ Keys(c.skips_to_pop) = unpopped

\* A generator body of the class declaring stash a and pop b returned
\* having neither stashed a nor popped b.
C20_Witness ==
  \E u \in Units :
    LET c == call[u]
    IN /\ c.self = "mixed" /\ c.generator /\ c.dispatched
       /\ StashedNames(c) = {} /\ PoppedNames(c) = {}
       /\ Keys(c.skips_to_pop) = {"b"}
       /\ c.error = MustBeStashed /\ c.comma_names = {"a"}

====
